---- MODULE Spec2Model ----
(***************************************************************************)
(* Model of data_server/data_loader.py: class CensusProfileTree.           *)
(*                                                                         *)
(* Python str values are sequences of one-character strings, so that the   *)
(* regular expression, split, strip, lower and sorted are computed as the  *)
(* interpreter computes them.  Python dicts are sequences of key/value     *)
(* pairs in insertion order.  Objects that the code shares by reference    *)
(* (family, meta, members, member, tree node and families-bag dicts) live  *)
(* in a heap: a sequence of dicts, an object's id being its index.         *)
(***************************************************************************)
EXTENDS Integers, Sequences, FiniteSets, TLC

(***************************************************************************)
(* Characters and strings                                                  *)
(***************************************************************************)

\* The characters used, in ascending code point order.
Alphabet ==
    << "\n", " ", "!", ",", "/",
       "0", "1", "2", "3", "4", "5", "6", "7", "8", "9",
       "A", "B", "C", "D", "E", "F", "G", "H", "I", "J", "K", "L", "M",
       "N", "O", "P", "Q", "R", "S", "T", "U", "V", "W", "X", "Y", "Z",
       "_",
       "a", "b", "c", "d", "e", "f", "g", "h", "i", "j", "k", "l", "m",
       "n", "o", "p", "q", "r", "s", "t", "u", "v", "w", "x", "y", "z",
       "{", "}" >>

\* the rank of each character in that order
Rank == [c \in {Alphabet[i] : i \in DOMAIN Alphabet} |->
            CHOOSE i \in DOMAIN Alphabet : Alphabet[i] = c]

Ord(c) == Rank[c]

IsDigit(c) == Ord(c) >= Ord("0") /\ Ord(c) <= Ord("9")

IsUpper(c) == Ord(c) >= Ord("A") /\ Ord(c) <= Ord("Z")

IsSpace(c) == c \in {" ", "\n"}

\* str.lower(), character by character
LowerChar(c) == IF IsUpper(c) THEN Alphabet[Ord(c) - Ord("A") + Ord("a")] ELSE c

Lower(s) == [i \in 1..Len(s) |-> LowerChar(s[i])]

\* s[i:j] of Python, with 1-based inclusive bounds
Slice(s, i, j) == IF i > j THEN <<>> ELSE SubSeq(s, i, j)

\* s.startswith(p, at position i)
StartsAt(s, i, p) ==
    /\ i + Len(p) - 1 <= Len(s)
    /\ \A j \in 1..Len(p) : s[i + j - 1] = p[j]

\* str.strip(): leading and trailing whitespace removed
Strip(s) ==
    LET keep == {i \in 1..Len(s) : ~IsSpace(s[i])}
    IN  IF keep = {} THEN <<>>
        ELSE LET lo == CHOOSE i \in keep : \A j \in keep : i <= j
                 hi == CHOOSE i \in keep : \A j \in keep : j <= i
             IN  SubSeq(s, lo, hi)

\* str.split(sep): every piece between occurrences of sep, empty ones included
RECURSIVE SplitFrom(_, _, _, _)
SplitFrom(s, sep, start, i) ==
    IF i > Len(s) - Len(sep) + 1
    THEN << Slice(s, start, Len(s)) >>
    ELSE IF StartsAt(s, i, sep)
         THEN << Slice(s, start, i - 1) >>
              \o SplitFrom(s, sep, i + Len(sep), i + Len(sep))
         ELSE SplitFrom(s, sep, start, i + 1)

Split(s, sep) == SplitFrom(s, sep, 1, 1)

\* the order of Python str comparison: lexicographic by code point
RECURSIVE StrLess(_, _)
StrLess(a, b) ==
    IF b = <<>> THEN FALSE
    ELSE IF a = <<>> THEN TRUE
    ELSE IF a[1] = b[1] THEN StrLess(Tail(a), Tail(b))
    ELSE Ord(a[1]) < Ord(b[1])

(***************************************************************************)
(* Python values: None, a str, or a reference to a dict of the heap        *)
(***************************************************************************)

VNone == [t |-> "none", r |-> 0, s |-> <<>>]

VStr(s) == [t |-> "str", r |-> 0, s |-> s]

VRef(i) == [t |-> "ref", r |-> i, s |-> <<>>]

\* truth value of a value that is None or a str (x or y, if x)
Truthy(v) == v.t = "str" /\ v.s # <<>>

\* str(x) for x None or a str
PyStr(v) == IF v.t = "none" THEN <<"N", "o", "n", "e">> ELSE v.s

(***************************************************************************)
(* dicts: insertion-ordered key/value pairs                                *)
(***************************************************************************)

DictHas(d, k) == \E i \in 1..Len(d) : d[i].k = k

DictIndex(d, k) == CHOOSE i \in 1..Len(d) : d[i].k = k

\* d[k]
DictGet(d, k) == d[DictIndex(d, k)].v

\* d[k] = v: an existing key keeps its position
DictSet(d, k, v) ==
    IF DictHas(d, k)
    THEN [d EXCEPT ![DictIndex(d, k)] = [k |-> k, v |-> v]]
    ELSE Append(d, [k |-> k, v |-> v])

DictKeys(d) == [i \in 1..Len(d) |-> d[i].k]

(***************************************************************************)
(* The classifier: _VAR_RE and _SUFFIX_MAP                                 *)
(***************************************************************************)

kEstimate == <<"e","s","t","i","m","a","t","e">>
kPercent == <<"p","e","r","c","e","n","t">>
kMoe == <<"m","o","e">>
kAnnotation == <<"_","a","n","n","o","t","a","t","i","o","n">>

\* the suffix alternatives of _VAR_RE, in the order the pattern tries them
Suffixes ==
    << <<"P","E","A">>, <<"P","M","A">>, <<"P","E">>, <<"P","M">>,
       <<"E","A">>, <<"M","A">>, <<"E">>, <<"M">> >>

SuffixMap(sfx) ==
    CASE sfx = <<"E">> -> kEstimate
      [] sfx = <<"M">> -> kMoe
      [] sfx = <<"P","E">> -> kPercent \o <<"_">> \o kEstimate
      [] sfx = <<"P","M">> -> kPercent \o <<"_">> \o kMoe
      [] sfx = <<"E","A">> -> kEstimate \o kAnnotation
      [] sfx = <<"M","A">> -> kMoe \o kAnnotation
      [] sfx = <<"P","E","A">> -> kPercent \o <<"_">> \o kEstimate \o kAnnotation
      [] sfx = <<"P","M","A">> -> kPercent \o <<"_">> \o kMoe \o kAnnotation
      [] OTHER -> sfx

\* (?P<group>DP\d{2}PR?|DP\d{2}) matched at the start, g characters long
GroupMatches(code, g) ==
    /\ g \in {4, 5, 6}
    /\ Len(code) >= g
    /\ code[1] = "D" /\ code[2] = "P"
    /\ IsDigit(code[3]) /\ IsDigit(code[4])
    /\ g >= 5 => code[5] = "P"
    /\ g = 6 => code[6] = "R"

\* (?P<line>\d{4}) at positions i .. i+3
LineMatches(code, i) ==
    /\ Len(code) >= i + 3
    /\ \A j \in i..(i + 3) : IsDigit(code[j])

\* $ at position i: the end of the string, or just before a final newline
DollarMatches(code, i) ==
    \/ i = Len(code) + 1
    \/ i = Len(code) /\ code[i] = "\n"

\* the ways the whole pattern matches: group length g and suffix number n
VarMatches(code) ==
    {gn \in {4, 5, 6} \X (1..Len(Suffixes)) :
        LET g == gn[1]
            sfx == Suffixes[gn[2]]
        IN  /\ GroupMatches(code, g)
            /\ Len(code) >= g + 1 /\ code[g + 1] = "_"
            /\ LineMatches(code, g + 2)
            /\ StartsAt(code, g + 6, sfx)
            /\ DollarMatches(code, g + 6 + Len(sfx))}

\* _VAR_RE.match(code): no match, or the groups of the match the regex
\* engine finds first (longer group alternative first, suffixes in order)
VarMatch(code) ==
    LET ms == VarMatches(code)
    IN  IF ms = {} THEN [ok |-> FALSE, group |-> <<>>, line |-> <<>>, suffix |-> <<>>]
        ELSE LET gn == CHOOSE x \in ms : \A y \in ms :
                          \/ x[1] > y[1]
                          \/ x[1] = y[1] /\ x[2] <= y[2]
             IN  [ok |-> TRUE,
                  group |-> SubSeq(code, 1, gn[1]),
                  line |-> SubSeq(code, gn[1] + 2, gn[1] + 5),
                  suffix |-> Suffixes[gn[2]]]

\* base = f"{group}_{line}"
BaseOf(m) == m.group \o <<"_">> \o m.line

(***************************************************************************)
(* The keys the code uses in its dicts                                     *)
(***************************************************************************)

kMeta == <<"m","e","t","a">>
kMembers == <<"m","e","m","b","e","r","s">>
kBase == <<"b","a","s","e">>
kGroup == <<"g","r","o","u","p">>
kConcept == <<"c","o","n","c","e","p","t">>
kLabel == <<"l","a","b","e","l">>
kVar == <<"v","a","r">>
kPredicateType == <<"p","r","e","d","i","c","a","t","e","T","y","p","e">>
kAttributes == <<"a","t","t","r","i","b","u","t","e","s">>
\* the key under which a tree node keeps its families-bag
kFamilies == <<"_","f","a","m","i","l","i","e","s","_">>

(***************************************************************************)
(* __init__, step 1: families keyed by base                                *)
(*                                                                         *)
(* A catalog is the "variables" mapping of the fetched document: a         *)
(* sequence, in iteration order, of records                                *)
(*   [code, label, concept, group, predicateType, attributes]              *)
(* with pairwise distinct codes; every field but code is None or a str     *)
(* (info.get returns None for an absent field).                            *)
(* A construction state is [ok, heap, fams]: fams is the families dict,    *)
(* base -> reference to the family dict.                                   *)
(***************************************************************************)

\* {"base": base, "group": info.get("group"), "concept": ..., "label": ...}
NewMeta(base, info) ==
    << [k |-> kBase, v |-> VStr(base)],
       [k |-> kGroup, v |-> info.group],
       [k |-> kConcept, v |-> info.concept],
       [k |-> kLabel, v |-> info.label] >>

\* {"var": var, "label": ..., "predicateType": ..., "attributes": ...}
NewMember(info) ==
    << [k |-> kVar, v |-> VStr(info.code)],
       [k |-> kLabel, v |-> info.label],
       [k |-> kPredicateType, v |-> info.predicateType],
       [k |-> kAttributes, v |-> info.attributes] >>

\* fam = families[base] of the defaultdict: a missing base gets
\* {"meta": None, "members": {}}
FamilyDefault(st, base) ==
    IF DictHas(st.fams, base) THEN st
    ELSE LET membersId == Len(st.heap) + 1
             famId == Len(st.heap) + 2
         IN  [st EXCEPT
                !.heap = st.heap \o
                    << <<>>,
                       << [k |-> kMeta, v |-> VNone],
                          [k |-> kMembers, v |-> VRef(membersId)] >> >>,
                !.fams = Append(st.fams, [k |-> base, v |-> VRef(famId)])]

\* a variant of SetMetaOnce without the "is None" test: every variable of a
\* base replaces the meta
SetMetaAlways(st, base, info) ==
    LET famId == DictGet(st.fams, base).r
        metaId == Len(st.heap) + 1
    IN  [st EXCEPT
            !.heap = Append([st.heap EXCEPT
                                ![famId] = DictSet(@, kMeta, VRef(metaId))],
                            NewMeta(base, info))]

\* if fam["meta"] is None: fam["meta"] = {...}
SetMetaOnce(st, base, info) ==
    LET famId == DictGet(st.fams, base).r
        metaId == Len(st.heap) + 1
    IN  IF DictGet(st.heap[famId], kMeta).t = "none"
        THEN [st EXCEPT
                !.heap = Append([st.heap EXCEPT
                                    ![famId] = DictSet(@, kMeta, VRef(metaId))],
                                NewMeta(base, info))]
        ELSE st

\* fam["members"][measure] = {...}
SetMember(st, base, measure, info) ==
    LET famId == DictGet(st.fams, base).r
        membersId == DictGet(st.heap[famId], kMembers).r
        memberId == Len(st.heap) + 1
    IN  [st EXCEPT
           !.heap = Append([st.heap EXCEPT
                               ![membersId] = DictSet(@, measure, VRef(memberId))],
                           NewMember(info))]

\* one iteration of the loop over variables.items()
AddVariable(st, info) ==
    LET m == VarMatch(info.code)
    IN  IF ~m.ok THEN st
        ELSE SetMember(SetMetaOnce(FamilyDefault(st, BaseOf(m)), BaseOf(m), info),
                       BaseOf(m), SuffixMap(m.suffix), info)

RECURSIVE BuildFamilies(_, _, _)
BuildFamilies(cat, i, st) ==
    IF i > Len(cat) THEN st
    ELSE BuildFamilies(cat, i + 1, AddVariable(st, cat[i]))

(***************************************************************************)
(* __init__, step 2: the label-driven tree                                 *)
(***************************************************************************)

NonEmpty(s) == s # <<>>

\* [p.strip() for p in label.split("!!") if p.strip()]
LabelTokens(label) ==
    LET parts == Split(label, <<"!", "!">>)
    IN  SelectSeq([i \in 1..Len(parts) |-> Strip(parts[i])], NonEmpty)

\* the leading measure word, if present, is removed
DropMeasureWord(path) ==
    IF path # <<>> /\ Lower(path[1]) \in {kEstimate, kPercent}
    THEN Tail(path)
    ELSE path

\* [fam["meta"]["concept"] or fam["meta"]["group"] or base]
FallbackPath(meta, base) ==
    IF Truthy(DictGet(meta, kConcept)) THEN << DictGet(meta, kConcept).s >>
    ELSE IF Truthy(DictGet(meta, kGroup)) THEN << DictGet(meta, kGroup).s >>
    ELSE << base >>

\* the path of a family: from fam["meta"]["label"] or "", else the fallback
FamilyPath(meta, base) ==
    LET lab == DictGet(meta, kLabel)
        path == DropMeasureWord(LabelTokens(IF Truthy(lab) THEN lab.s ELSE <<>>))
    IN  IF path = <<>> THEN FallbackPath(meta, base) ELSE path

\* node.setdefault(key, {}): [ok, heap, val]; not ok when node is no dict
\* (AttributeError: a str or None has no setdefault)
SetDefault(heap, node, key) ==
    IF node.t # "ref" THEN [ok |-> FALSE, heap |-> heap, val |-> node]
    ELSE IF DictHas(heap[node.r], key)
         THEN [ok |-> TRUE, heap |-> heap, val |-> DictGet(heap[node.r], key)]
         ELSE [ok |-> TRUE,
               heap |-> Append([heap EXCEPT
                                   ![node.r] = Append(@, [k |-> key,
                                                         v |-> VRef(Len(heap) + 1)])],
                               <<>>),
               val |-> VRef(Len(heap) + 1)]

\* for token in path: node = node.setdefault(token, {})
RECURSIVE WalkCreate(_, _, _)
WalkCreate(heap, node, path) ==
    IF path = <<>> THEN [ok |-> TRUE, heap |-> heap, val |-> node]
    ELSE LET r == SetDefault(heap, node, Head(path))
         IN  IF ~r.ok THEN r ELSE WalkCreate(r.heap, r.val, Tail(path))

\* node.setdefault("_families_", {})[base] = fam
StoreFamily(heap, node, base, fam) ==
    LET r == SetDefault(heap, node, kFamilies)
    IN  IF ~r.ok \/ r.val.t # "ref" THEN [ok |-> FALSE, heap |-> heap]
        ELSE [ok |-> TRUE,
              heap |-> [r.heap EXCEPT ![r.val.r] = DictSet(@, base, fam)]]

\* one iteration of the loop over self._families.items()
InsertFamily(st, root, entry) ==
    LET meta == st.heap[DictGet(st.heap[entry.v.r], kMeta).r]
        w == WalkCreate(st.heap, VRef(root), FamilyPath(meta, entry.k))
        f == StoreFamily(w.heap, w.val, entry.k, entry.v)
    IN  IF ~w.ok \/ ~f.ok THEN [st EXCEPT !.ok = FALSE]
        ELSE [st EXCEPT !.heap = f.heap]

RECURSIVE BuildTree(_, _, _)
BuildTree(st, root, i) ==
    IF ~st.ok \/ i > Len(st.fams) THEN st
    ELSE BuildTree(InsertFamily(st, root, st.fams[i]), root, i + 1)

(***************************************************************************)
(* __init__, step 3: the lookups                                           *)
(***************************************************************************)

\* self._by_group[fam["meta"]["group"]].append(fam), per family in order
RECURSIVE BuildByGroup(_, _, _, _)
BuildByGroup(heap, fams, i, acc) ==
    IF i > Len(fams) THEN acc
    ELSE LET g == DictGet(heap[DictGet(heap[fams[i].v.r], kMeta).r], kGroup)
             old == IF DictHas(acc, g) THEN DictGet(acc, g) ELSE <<>>
         IN  BuildByGroup(heap, fams, i + 1, DictSet(acc, g, Append(old, fams[i].v)))

\* the stripped, non-empty pieces of attrs.split(","), when attrs is truthy
AttributeCodes(attrs) ==
    IF ~Truthy(attrs) THEN <<>>
    ELSE LET parts == Split(attrs.s, <<",">>)
         IN  SelectSeq([i \in 1..Len(parts) |-> Strip(parts[i])], NonEmpty)

\* a variant of RegisterAttributes in which an attribute code stays with the
\* first family that claims it
RECURSIVE RegisterAttributesKeepFirst(_, _, _, _)
RegisterAttributesKeepFirst(fams, fam, codes, acc) ==
    IF codes = <<>> THEN acc
    ELSE RegisterAttributesKeepFirst(fams, fam, Tail(codes),
                                     IF DictHas(acc, Head(codes)) THEN acc
                                     ELSE DictSet(acc, Head(codes), fam))

\* self._by_attribute[a] = self._families.get(base), per attribute code a
RECURSIVE RegisterAttributes(_, _, _, _)
RegisterAttributes(fams, fam, codes, acc) ==
    IF codes = <<>> THEN acc
    ELSE RegisterAttributes(fams, fam, Tail(codes), DictSet(acc, Head(codes), fam))

\* a variant of AddAttributes without the _VAR_RE test: the attribute codes
\* of every variable are registered, under families.get of its code
AddAttributesUnchecked(fams, info, acc) ==
    RegisterAttributes(fams,
                       IF DictHas(fams, info.code)
                       THEN DictGet(fams, info.code) ELSE VNone,
                       AttributeCodes(info.attributes), acc)

\* one iteration of the loop over variables.items(): only a variable whose
\* code matches _VAR_RE registers its attribute codes
AddAttributes(fams, info, acc) ==
    LET m == VarMatch(info.code)
    IN  IF ~m.ok THEN acc
        ELSE RegisterAttributes(fams,
                                IF DictHas(fams, BaseOf(m))
                                THEN DictGet(fams, BaseOf(m)) ELSE VNone,
                                AttributeCodes(info.attributes), acc)

RECURSIVE BuildByAttribute(_, _, _, _)
BuildByAttribute(cat, fams, i, acc) ==
    IF i > Len(cat) THEN acc
    ELSE BuildByAttribute(cat, fams, i + 1, AddAttributes(fams, cat[i], acc))

(***************************************************************************)
(* __init__ as a whole                                                     *)
(***************************************************************************)

\* what a constructor call that raises leaves behind: no object
NoObject ==
    [ok |-> FALSE, heap |-> <<>>, families |-> <<>>, tree |-> 0,
     by_group |-> <<>>, by_attribute |-> <<>>]

\* the object CensusProfileTree() builds from the fetched catalog
Build(cat) ==
    LET s1 == BuildFamilies(cat, 1, [ok |-> TRUE, heap |-> <<>>, fams |-> <<>>])
        root == Len(s1.heap) + 1
        s2 == BuildTree([s1 EXCEPT !.heap = Append(s1.heap, <<>>)], root, 1)
    IN  IF ~s2.ok THEN NoObject
        ELSE [ok |-> TRUE,
              heap |-> s2.heap,
              families |-> s2.fams,
              tree |-> root,
              by_group |-> BuildByGroup(s2.heap, s2.fams, 1, <<>>),
              by_attribute |-> BuildByAttribute(cat, s2.fams, 1, <<>>)]

(***************************************************************************)
(* The query operations                                                    *)
(*                                                                         *)
(* A result is a value, or RAISE when the call ends in an exception.  A    *)
(* path argument is a list of tokens or one "/"-delimited str.             *)
(***************************************************************************)

VRaise == [t |-> "raise", r |-> 0, s |-> <<>>]

\* a dict literal {} made for the result, not an object of the tree
VEmptyDict == [t |-> "emptydict", r |-> 0, s |-> <<>>]

ListArg(tokens) == [t |-> "list", l |-> tokens, s |-> <<>>]

StrArg(s) == [t |-> "str", l |-> <<>>, s |-> s]

\* if isinstance(path, str): path = [p for p in path.split("/") if p]
PathTokens(arg) ==
    IF arg.t = "str" THEN SelectSeq(Split(arg.s, <<"/">>), NonEmpty) ELSE arg.l

\* for token in path: node = node.get(token); if node is None: return None
\* (a str reached by the walk has no get: AttributeError)
RECURSIVE WalkGet(_, _, _)
WalkGet(h, node, path) ==
    IF path = <<>> THEN node
    ELSE IF node.t # "ref" THEN VRaise
    ELSE IF ~DictHas(h[node.r], Head(path)) THEN VNone
    ELSE IF DictGet(h[node.r], Head(path)).t = "none" THEN VNone
    ELSE WalkGet(h, DictGet(h[node.r], Head(path)), Tail(path))

\* subtree(path)
SubtreeOf(o, arg) == WalkGet(o.heap, VRef(o.tree), PathTokens(arg))

\* not node: None, an empty dict or an empty str
Falsy(h, node) ==
    \/ node.t \in {"none", "emptydict"}
    \/ node.t = "str" /\ node.s = <<>>
    \/ node.t = "ref" /\ h[node.r] = <<>>

\* families_at(path)
FamiliesAtOf(o, arg) ==
    LET node == SubtreeOf(o, arg)
    IN  IF node.t = "raise" THEN VRaise
        ELSE IF Falsy(o.heap, node) THEN VEmptyDict
        ELSE IF node.t # "ref" THEN VRaise
        ELSE IF DictHas(o.heap[node.r], kFamilies)
             THEN DictGet(o.heap[node.r], kFamilies)
             ELSE VEmptyDict

\* a variant of family(code) that looks the whole code up, without
\* reducing it to its base
FamilyOfWholeCode(o, code) ==
    IF DictHas(o.families, code) THEN DictGet(o.families, code) ELSE VNone

\* family(code)
FamilyOf(o, code) ==
    LET m == VarMatch(code)
    IN  IF ~m.ok THEN VNone
        ELSE IF DictHas(o.families, BaseOf(m)) THEN DictGet(o.families, BaseOf(m))
        ELSE VNone

\* by_group(group): the list of families, or []
ByGroupOf(o, group) ==
    IF DictHas(o.by_group, group) THEN DictGet(o.by_group, group) ELSE <<>>

\* by_attribute(attribute)
ByAttributeOf(o, attribute) ==
    IF DictHas(o.by_attribute, attribute) THEN DictGet(o.by_attribute, attribute)
    ELSE VNone

(***************************************************************************)
(* dump_xml and _append_node_xml                                           *)
(*                                                                         *)
(* The document is the sequence of its parse events, in document order:    *)
(* the start of an element with its attributes, a text, the end of an      *)
(* element.  A "raise" event marks the place where building or             *)
(* serializing the element tree raises; all of that happens before the     *)
(* destination is opened.                                                  *)
(***************************************************************************)

Open(tag, attrs) == [ev |-> "open", tag |-> tag, attrs |-> attrs, text |-> <<>>]

Close(tag) == [ev |-> "close", tag |-> tag, attrs |-> <<>>, text |-> <<>>]

Text(s) == [ev |-> "text", tag |-> "", attrs |-> <<>>, text |-> s]

Raise == [ev |-> "raise", tag |-> "", attrs |-> <<>>, text |-> <<>>]

\* el = ET.SubElement(parent, tag); el.text = s (no text is written for "")
TextElement(tag, s) ==
    << Open(tag, <<>>) >> \o (IF s = <<>> THEN <<>> ELSE << Text(s) >>) \o << Close(tag) >>

\* the text ET.tostring writes for an attribute value: str(None) is "None",
\* a str is itself, and a dict is written as its repr, a text in braces
\* that is kept here as "{}" (it is the code of no variable and the base of
\* no family)
XmlStr(v) == IF v.t = "ref" THEN <<"{", "}">> ELSE PyStr(v)

\* d.get(key, default) on the dict d
GetOr(d, key, default) == IF DictHas(d, key) THEN DictGet(d, key) ELSE default

\* sorted(): the keys in ascending str order
RECURSIVE SortSet(_)
SortSet(S) ==
    IF S = {} THEN <<>>
    ELSE LET m == CHOOSE a \in S : \A b \in S : a = b \/ StrLess(a, b)
         IN  << m >> \o SortSet(S \ {m})

Sorted(keys) == SortSet({keys[i] : i \in 1..Len(keys)})

NotFamiliesKey(k) == k # kFamilies

\* the Attr children of <Attributes>
RECURSIVE AttrElements(_)
AttrElements(codes) ==
    IF codes = <<>> THEN <<>>
    ELSE TextElement("Attr", Head(codes)) \o AttrElements(Tail(codes))

\* a text taken from x that is used only when x is truthy: a dict there
\* raises (it has no split, and ET.tostring does not write it as a text)
TextRaises(h, x) == ~Falsy(h, x) /\ x.t # "str"

\* one <Member>; minfo is the value stored under the measure
MemberXml(h, measure, minfo, il, ia) ==
    IF minfo.t # "ref" THEN << Raise >>
    ELSE LET d == h[minfo.r]
             lab == GetOr(d, kLabel, VNone)
             att == GetOr(d, kAttributes, VNone)
         IN  << Open("Member",
                     << <<"measure", measure>>,
                        <<"var", XmlStr(GetOr(d, kVar, VStr(<<>>)))>>,
                        <<"predicateType",
                          XmlStr(GetOr(d, kPredicateType, VStr(<<>>)))>> >>) >>
             \o (IF il /\ TextRaises(h, lab) THEN << Raise >>
                 ELSE IF il /\ Truthy(lab) THEN TextElement("Label", lab.s)
                 ELSE <<>>)
             \o (IF ia /\ TextRaises(h, att) THEN << Raise >>
                 ELSE IF ia /\ Truthy(att)
                 THEN << Open("Attributes", <<>>) >>
                      \o AttrElements(AttributeCodes(att))
                      \o << Close("Attributes") >>
                 ELSE <<>>)
             \o << Close("Member") >>

\* for measure, minfo in sorted(members.items())
RECURSIVE MembersXml(_, _, _, _, _)
MembersXml(h, members, measures, il, ia) ==
    IF measures = <<>> THEN <<>>
    ELSE MemberXml(h, Head(measures), DictGet(members, Head(measures)), il, ia)
         \o MembersXml(h, members, Tail(measures), il, ia)

\* the dict that x.get(key, {}) gives; x is a dict
SubDict(h, x, key) ==
    IF ~DictHas(x, key) THEN <<>>
    ELSE IF DictGet(x, key).t = "ref" THEN h[DictGet(x, key).r]
    ELSE <<>>

\* x.get(key, {}) is no dict, so that the next .get or .items raises
SubDictRaises(x, key) == DictHas(x, key) /\ DictGet(x, key).t # "ref"

\* one <Family>; fam is the value stored in the families-bag under base.
\* meta.get("base", base) is passed without str(): ET.tostring raises on
\* None and writes a dict as its repr
FamilyXml(h, base, fam, il, ia) ==
    IF fam.t # "ref" THEN << Raise >>
    ELSE IF SubDictRaises(h[fam.r], kMeta) \/ SubDictRaises(h[fam.r], kMembers)
    THEN << Raise >>
    ELSE LET meta == SubDict(h, h[fam.r], kMeta)
             members == SubDict(h, h[fam.r], kMembers)
             baseV == GetOr(meta, kBase, VStr(base))
             lab == GetOr(meta, kLabel, VNone)
         IN  IF baseV.t = "none" \/ (il /\ TextRaises(h, lab)) THEN << Raise >>
             ELSE << Open("Family",
                          << <<"base", XmlStr(baseV)>>,
                             <<"group", XmlStr(GetOr(meta, kGroup, VStr(<<>>)))>>,
                             <<"concept", XmlStr(GetOr(meta, kConcept, VStr(<<>>)))>> >>) >>
                  \o (IF il
                      THEN TextElement("FamilyLabel", IF Truthy(lab) THEN lab.s ELSE <<>>)
                      ELSE <<>>)
                  \o MembersXml(h, members, Sorted(DictKeys(members)), il, ia)
                  \o << Close("Family") >>

\* for base, fam in sorted(fams.items())
RECURSIVE FamiliesXml(_, _, _, _, _)
FamiliesXml(h, fams, bases, il, ia) ==
    IF bases = <<>> THEN <<>>
    ELSE FamilyXml(h, Head(bases), DictGet(fams, Head(bases)), il, ia)
         \o FamiliesXml(h, fams, Tail(bases), il, ia)

\* _append_node_xml(parent, node, ...): the children appended to parent
RECURSIVE AppendNodeXml(_, _, _, _)
RECURSIVE ChildNodesXml(_, _, _, _, _)
ChildNodesXml(h, node, keys, il, ia) ==
    IF keys = <<>> THEN <<>>
    ELSE << Open("Node", << <<"name", Head(keys)>> >>) >>
         \o (IF DictGet(node, Head(keys)).t = "ref"
             THEN AppendNodeXml(h, DictGet(node, Head(keys)).r, il, ia)
             ELSE <<>>)
         \o << Close("Node") >>
         \o ChildNodesXml(h, node, Tail(keys), il, ia)

AppendNodeXml(h, id, il, ia) ==
    LET fams == GetOr(h[id], kFamilies, VNone)
    IN  ChildNodesXml(h, h[id], Sorted(SelectSeq(DictKeys(h[id]), NotFamiliesKey)), il, ia)
        \o (IF Falsy(h, fams) THEN <<>>
            ELSE IF fams.t # "ref" THEN << Raise >>
            ELSE FamiliesXml(h, h[fams.r], Sorted(DictKeys(h[fams.r])), il, ia))

\* the element tree of dump_xml, root_name "ACSProfile", as ET.tostring
\* writes it
Serialize(o, il, ia) ==
    << Open("ACSProfile", <<>>) >>
    \o AppendNodeXml(o.heap, o.tree, il, ia)
    \o << Close("ACSProfile") >>

\* the serialization ends without an exception
Serializable(doc) == \A i \in 1..Len(doc) : doc[i].ev # "raise"

\* minidom writes a line break of an attribute value as it is, and whoever
\* parses the file reads it as a space
PrettyValue(s) == [i \in 1..Len(s) |-> IF s[i] = "\n" THEN " " ELSE s[i]]

PrettyAttrs(attrs) == [i \in 1..Len(attrs) |-> << attrs[i][1], PrettyValue(attrs[i][2]) >>]

\* the line break and the indent="  " that toprettyxml puts before an
\* element at depth n
Indent(n) == <<"\n">> \o [i \in 1..(2 * n) |-> " "]

\* minidom.parseString(xml_bytes).toprettyxml(indent="  "): every child
\* element starts on a line of its own and so does the end of an element
\* that has child elements; an element with a text only stays on one line
RECURSIVE PrettyFrom(_, _, _)
PrettyFrom(doc, k, depth) ==
    IF k > Len(doc) THEN <<>>
    ELSE IF doc[k].ev = "open"
    THEN (IF k = 1 THEN <<>> ELSE << Text(Indent(depth)) >>)
         \o << Open(doc[k].tag, PrettyAttrs(doc[k].attrs)) >>
         \o PrettyFrom(doc, k + 1, depth + 1)
    ELSE IF doc[k].ev = "close"
    THEN (IF doc[k - 1].ev = "close" THEN << Text(Indent(depth - 1)) >> ELSE <<>>)
         \o << doc[k] >>
         \o PrettyFrom(doc, k + 1, depth - 1)
    ELSE << doc[k] >> \o PrettyFrom(doc, k + 1, depth)

\* xml_bytes of dump_xml, as the events a parser of the file reads
XmlBytes(o, il, ia, pretty) ==
    IF pretty /\ Serializable(Serialize(o, il, ia))
    THEN PrettyFrom(Serialize(o, il, ia), 1, 0)
    ELSE Serialize(o, il, ia)

(***************************************************************************)
(* The catalogs the construction is run on                                 *)
(***************************************************************************)

sDP02_0126E == <<"D","P","0","2","_","0","1","2","6","E">>
sDP02_0126PE == <<"D","P","0","2","_","0","1","2","6","P","E">>
sDP02_0126E_nl == <<"D","P","0","2","_","0","1","2","6","E","\n">>
sDP02_0126EA == <<"D","P","0","2","_","0","1","2","6","E","A">>
sDP05_0050PM == <<"D","P","0","5","_","0","0","5","0","P","M">>
sDP05_0050PMA == <<"D","P","0","5","_","0","0","5","0","P","M","A">>
sDP03_0001E == <<"D","P","0","3","_","0","0","0","1","E">>
sDP06_0001E == <<"D","P","0","6","_","0","0","0","1","E">>
sDP02PR_0001M == <<"D","P","0","2","P","R","_","0","0","0","1","M">>
sFor == <<"f","o","r">>
sDP04_0001E == <<"D","P","0","4","_","0","0","0","1","E">>
sDP04_0002E == <<"D","P","0","4","_","0","0","0","2","E">>
sDP02 == <<"D","P","0","2">>
sDP03 == <<"D","P","0","3">>
sDP06 == <<"D","P","0","6">>
sDP04 == <<"D","P","0","4">>
sDP05 == <<"D","P","0","5">>
sDP02PR == <<"D","P","0","2","P","R">>
sNA == <<"N","/","A">>
sDP02_0126 == <<"D","P","0","2","_","0","1","2","6">>
sDP05_0050 == <<"D","P","0","5","_","0","0","5","0">>
sNoneText == <<"N","o","n","e">>
sInt == <<"i","n","t">>
lArab == <<"E","s","t","i","m","a","t","e","!","!","A","N","C","E","S","T","R","Y","!","!","T","o","t","a","l"," ","p","o","p","u","l","a","t","i","o","n","!","!","A","r","a","b">>
lPercentA == <<"P","E","R","C","E","N","T","!","!"," ","A"," ","!","!","!","!","b">>
lA == <<"A">>
lAFam == <<"A","!","!","_","f","a","m","i","l","i","e","s","_">>
lEstimate == <<"e","s","t","i","m","a","t","e">>
lPercent == <<"P","e","r","c","e","n","t">>
lAFamBase == <<"A","!","!","_","f","a","m","i","l","i","e","s","_","!","!","D","P","0","5","_","0","0","5","0">>
lAFamBaseMeta == <<"A","!","!","_","f","a","m","i","l","i","e","s","_","!","!","D","P","0","5","_","0","0","5","0","!","!","m","e","t","a","!","!","b","a","s","e">>
aArab == <<"D","P","0","2","_","0","1","2","6","E","A",","," ","D","P","0","5","_","0","0","5","0","P","M","A">>
aBlank == <<" ",",">>
tANCESTRY == <<"A","N","C","E","S","T","R","Y">>
tTotal == <<"T","o","t","a","l"," ","p","o","p","u","l","a","t","i","o","n">>
tArab == <<"A","r","a","b">>
tA == <<"A">>
tZ == <<"z">>

RawVariable(code, label, concept, group, predicateType, attributes) ==
    [code |-> code, label |-> label, concept |-> concept, group |-> group,
     predicateType |-> predicateType, attributes |-> attributes]

\* The variables a catalog is drawn from: the scenario of the documentation
\* (DP02_0126E), a second measure and a newline-terminated code of the same
\* base, degenerate labels, an unclassifiable code, shared attribute codes,
\* and labels with tokens equal to keys the code uses itself.
Pool ==
    << RawVariable(sDP02_0126E, VStr(lArab), VNone, VStr(sDP02), VStr(sInt), VStr(aArab)),
       RawVariable(sDP02_0126PE, VStr(lPercentA), VStr(<<>>), VStr(sDP02), VNone, VNone),
       RawVariable(sDP02_0126E_nl, VNone, VNone, VNone, VNone, VStr(aBlank)),
       RawVariable(sDP05_0050PM, VStr(lA), VStr(sNoneText), VStr(sDP05), VStr(sInt),
                   VStr(sDP05_0050PMA)),
       RawVariable(sDP03_0001E, VStr(lAFam), VNone, VStr(sDP03), VNone, VNone),
       RawVariable(sDP02PR_0001M, VStr(lEstimate), VStr(<<>>), VStr(sDP02PR), VNone, VNone),
       RawVariable(sFor, VStr(lA), VNone, VStr(sNA), VNone, VStr(sDP05_0050PMA)),
       RawVariable(sDP04_0001E, VStr(lAFamBase), VNone, VStr(sDP04), VNone, VNone),
       RawVariable(sDP04_0002E, VStr(lAFamBaseMeta), VNone, VStr(sDP04), VNone, VNone),
       RawVariable(sDP06_0001E, VStr(lPercent), VStr(tA), VStr(sDP06), VNone, VNone) >>

\* the largest number of variables in a catalog
MaxVars == 2

\* a dict has each key once: the catalogs are the sequences of distinct
\* variables of the pool
Catalogs ==
    LET picks == UNION {[1..n -> 1..Len(Pool)] : n \in 0..MaxVars}
    IN  {[i \in 1..Len(q) |-> Pool[q[i]]] :
            q \in {q \in picks : \A i, j \in 1..Len(q) : q[i] = q[j] => i = j}}

(***************************************************************************)
(* The arguments the queries are called with                               *)
(***************************************************************************)

\* every sequence of keys that leads from the value v to some value
RECURSIVE KeyPaths(_, _)
KeyPaths(h, v) ==
    IF v.t # "ref" THEN {<<>>}
    ELSE {<<>>} \cup
         UNION {{<< h[v.r][i].k >> \o p : p \in KeyPaths(h, h[v.r][i].v)} :
                    i \in 1..Len(h[v.r])}

\* those paths, and each of them followed by a token that is in no dict
QueryPaths(o) ==
    LET ps == KeyPaths(o.heap, VRef(o.tree))
    IN  ps \cup {p \o << tZ >> : p \in ps}

\* "/"-delimited paths
QueryStrings ==
    { tANCESTRY \o <<"/">> \o tTotal \o <<"/">> \o tArab,
      <<"/">> \o tA \o <<"/", "/">> \o kFamilies \o <<"/">>,
      tA \o <<"/">> \o tZ }

QueryArgs(o) == {ListArg(p) : p \in QueryPaths(o)} \cup {StrArg(s) : s \in QueryStrings}

QueryCodes == {Pool[i].code : i \in 1..Len(Pool)} \cup {sDP05_0050PMA, sDP02_0126EA}

QueryGroups == {VStr(sDP02), VStr(sDP04), VStr(sDP05), VNone, VStr(tZ)}

QueryAttributes == {sDP05_0050PMA, sDP02_0126EA, tZ}

(***************************************************************************)
(* State                                                                   *)
(***************************************************************************)

VARIABLES
    catalog,    \* the "variables" mapping the catalog URL returns
    phase,      \* "unbuilt", "built", or "failed" when __init__ raised
    cpt,        \* the CensusProfileTree object: heap, families, tree, lookups
    op,         \* the query that has just returned, or "none"
    arg,        \* its argument
    ret,        \* its result: a value, RAISE, or a list of families
    file,       \* the content of the destination of dump_xml
    status      \* how the last dump_xml call ended: "none", "ok", "failed"

vars == <<catalog, phase, cpt, op, arg, ret, file, status>>

NoArg == StrArg(<<>>)

Result(v) == [t |-> v.t, r |-> v.r, s |-> v.s, l |-> <<>>]

ListResult(l) == [t |-> "list", r |-> 0, s |-> <<>>, l |-> l]

\* the destination before the first dump: some earlier content
OldFile == [pretty |-> FALSE, ev |-> << Open("Old", <<>>), Close("Old") >>]

Init ==
    /\ catalog \in Catalogs
    /\ phase = "unbuilt"
    /\ cpt = NoObject
    /\ op = "none"
    /\ arg = NoArg
    /\ ret = Result(VNone)
    /\ file = OldFile
    /\ status = "none"

\* cpt = CensusProfileTree()
Construct ==
    /\ phase = "unbuilt"
    /\ cpt' = Build(catalog)
    /\ phase' = IF cpt'.ok THEN "built" ELSE "failed"
    /\ UNCHANGED <<catalog, op, arg, ret, file, status>>

Idle == phase = "built" /\ op = "none"

Subtree ==
    /\ Idle
    /\ \E a \in QueryArgs(cpt) :
          /\ op' = "subtree"
          /\ arg' = a
          /\ ret' = Result(SubtreeOf(cpt, a))
    /\ UNCHANGED <<catalog, phase, cpt, file, status>>

FamiliesAt ==
    /\ Idle
    /\ \E a \in QueryArgs(cpt) :
          /\ op' = "families_at"
          /\ arg' = a
          /\ ret' = Result(FamiliesAtOf(cpt, a))
    /\ UNCHANGED <<catalog, phase, cpt, file, status>>

Family ==
    /\ Idle
    /\ \E code \in QueryCodes :
          /\ op' = "family"
          /\ arg' = StrArg(code)
          /\ ret' = Result(FamilyOf(cpt, code))
    /\ UNCHANGED <<catalog, phase, cpt, file, status>>

ByGroup ==
    /\ Idle
    /\ \E g \in QueryGroups :
          /\ op' = "by_group"
          /\ arg' = IF g.t = "none" THEN ListArg(<<>>) ELSE StrArg(g.s)
          /\ ret' = ListResult(ByGroupOf(cpt, g))
    /\ UNCHANGED <<catalog, phase, cpt, file, status>>

ByAttribute ==
    /\ Idle
    /\ \E a \in QueryAttributes :
          /\ op' = "by_attribute"
          /\ arg' = StrArg(a)
          /\ ret' = Result(ByAttributeOf(cpt, a))
    /\ UNCHANGED <<catalog, phase, cpt, file, status>>

\* the caller takes the result; the object is ready for the next call
Return ==
    /\ op # "none"
    /\ op' = "none"
    /\ arg' = NoArg
    /\ ret' = Result(VNone)
    /\ UNCHANGED <<catalog, phase, cpt, file, status>>

\* where a write that fails stops: before the first byte, or half way
PartialCuts(n) == {0, n \div 2}

\* dump_xml(path, include_labels=il, include_attributes=ia, pretty=pretty).
\* The element tree is built and serialized first; then open(path, "wb")
\* empties the destination and f.write writes the document into it.
DumpXml ==
    /\ phase = "built"
    /\ \E il, ia, pretty \in BOOLEAN :
          \E doc \in {XmlBytes(cpt, il, ia, pretty)} :
                \/ \* an exception before the destination is opened, or in open
                   /\ file' = file
                   /\ status' = "failed"
                \/ \* an exception in f.write, after open has emptied the file
                   /\ Serializable(doc)
                   /\ \E k \in PartialCuts(Len(doc)) :
                         file' = [pretty |-> pretty, ev |-> SubSeq(doc, 1, k)]
                   /\ status' = "failed"
                \/ /\ Serializable(doc)
                   /\ file' = [pretty |-> pretty, ev |-> doc]
                   /\ status' = "ok"
    /\ UNCHANGED <<catalog, phase, cpt, op, arg, ret>>

Next ==
    \/ Construct
    \/ Subtree
    \/ FamiliesAt
    \/ Family
    \/ ByGroup
    \/ ByAttribute
    \/ Return

\* construction and the queries
Spec == Init /\ [][Next]_vars

DumpNext ==
    \/ Construct
    \/ DumpXml

\* construction and the serializer
DumpSpec == Init /\ [][DumpNext]_vars

(***************************************************************************)
(* What the properties speak about                                         *)
(***************************************************************************)

Min(S) == CHOOSE i \in S : \A j \in S : i <= j

Max(S) == CHOOSE i \in S : \A j \in S : j <= i

Classifiable(info) == VarMatch(info.code).ok

CodeBase(code) == BaseOf(VarMatch(code))

CodeMeasure(code) == SuffixMap(VarMatch(code).suffix)

\* the positions in the catalog of the classifiable variables of a base
IndicesOfBase(b) ==
    {i \in 1..Len(catalog) : Classifiable(catalog[i]) /\ CodeBase(catalog[i].code) = b}

\* the meta and members dicts of the family a reference points to
MetaOf(o, fam) == o.heap[DictGet(o.heap[fam.r], kMeta).r]

MembersOf(o, fam) == o.heap[DictGet(o.heap[fam.r], kMembers).r]

\* the (key, value) pairs of a dict
Entries(d) == {<< d[i].k, d[i].v >> : i \in 1..Len(d)}

\* the paths present in the tree: the key sequences that lead to a dict
TreePaths(o) ==
    {p \in KeyPaths(o.heap, VRef(o.tree)) : SubtreeOf(o, ListArg(p)).t = "ref"}

\* what families_at(path) returns, as a set of (key, value) pairs
BagEntries(o, p) ==
    LET r == FamiliesAtOf(o, ListArg(p))
    IN  IF r.t = "ref" THEN Entries(o.heap[r.r]) ELSE {}

(***************************************************************************)
(* C1                                                                      *)
(***************************************************************************)

\* C1: after construction, the union of families_at(path) over every path
\* present in the tree is the base -> Family mapping, and no base is
\* returned for two different paths, whatever the label texts are.
C1_EveryFamilyInExactlyOneBag ==
    phase = "built" =>
        \A paths \in {TreePaths(cpt)} :
            /\ UNION {BagEntries(cpt, p) : p \in paths} = Entries(cpt.families)
            /\ \A p, q \in paths :
                  p # q => {e[1] : e \in BagEntries(cpt, p)}
                           \cap {e[1] : e \in BagEntries(cpt, q)} = {}

(***************************************************************************)
(* C2                                                                      *)
(***************************************************************************)

\* C2: no query raises, and subtree of a path that ends in a token found
\* in no dict returns None, whatever value the walk has reached before it.
C2_QueriesNeverRaise ==
    op # "none" =>
        /\ ret.t # "raise"
        /\ (op = "subtree" /\ arg.t = "list" /\ arg.l # <<>>
            /\ arg.l[Len(arg.l)] = tZ) => ret.t = "none"

(***************************************************************************)
(* C3                                                                      *)
(***************************************************************************)

ListsAttribute(info, a) ==
    \E j \in 1..Len(AttributeCodes(info.attributes)) :
        AttributeCodes(info.attributes)[j] = a

\* the positions of the classifiable variables that list attribute code a
Listers(a) ==
    {i \in 1..Len(catalog) : Classifiable(catalog[i]) /\ ListsAttribute(catalog[i], a)}

AsksDP05_0050PMA ==
    /\ op = "by_attribute"
    /\ arg = StrArg(sDP05_0050PMA)
    /\ Listers(sDP05_0050PMA) # {}

\* C3 as claimed: by_attribute("DP05_0050PMA") returns the Family of base
\* DP05_0050 whenever some classifiable variable lists DP05_0050PMA,
\* whichever variable of whichever family lists it.
C3_AttributeResolvesToDP05_0050 ==
    AsksDP05_0050PMA =>
        /\ ret.t = "ref"
        /\ DictGet(MetaOf(cpt, ret), kBase) = VStr(sDP05_0050)

\* C3 as amended: by_attribute("DP05_0050PMA") returns the Family that owns
\* the last classifiable variable, in catalog order, that lists
\* DP05_0050PMA among its attribute codes.
C3_AttributeResolvesToLastLister ==
    AsksDP05_0050PMA =>
        \A last \in {Max(Listers(sDP05_0050PMA))} :
            /\ ret.t = "ref"
            /\ DictGet(MetaOf(cpt, ret), kBase) = VStr(CodeBase(catalog[last].code))
            /\ Result(DictGet(cpt.families, CodeBase(catalog[last].code))) = ret

\* by_attribute("DP05_0050PMA") has returned a Family while variables of two
\* different families list the code
C3_Witness ==
    /\ AsksDP05_0050PMA
    /\ ret.t = "ref"
    /\ \E i, j \in Listers(sDP05_0050PMA) :
          CodeBase(catalog[i].code) # CodeBase(catalog[j].code)

(***************************************************************************)
(* C4                                                                      *)
(***************************************************************************)

\* the value of attribute name of the element started by event e
Attr(e, name) == e.attrs[CHOOSE i \in 1..Len(e.attrs) : e.attrs[i][1] = name][2]

\* re-parsing: the positions of the Family elements of a document
FamilyOpens(ev) == {i \in 1..Len(ev) : ev[i].ev = "open" /\ ev[i].tag = "Family"}

FamilyEnd(ev, i) ==
    Min({j \in i..Len(ev) : ev[j].ev = "close" /\ ev[j].tag = "Family"})

\* the (measure, var) pairs of the Member elements of the Family at i
DocMembers(ev, i) ==
    {<< Attr(ev[k], "measure"), Attr(ev[k], "var") >> :
        k \in {k \in i..FamilyEnd(ev, i) : ev[k].ev = "open" /\ ev[k].tag = "Member"}}

\* the (measure, var) pairs of a Family of the object
ModelMembers(o, fam) ==
    {<< e[1], DictGet(o.heap[e[2].r], kVar).s >> : e \in Entries(MembersOf(o, fam))}

\* C4: a completed dump_xml followed by a re-parse gives, for every Family
\* of the mapping, exactly one Family element of that base with the same
\* measure names and source codes, and Families that differ in group or in
\* concept (an absent concept, a concept with literal text) differ in the
\* document's group or concept value.
C4_RoundTrip ==
    status = "ok" =>
        \A fams \in {Entries(cpt.families)} :
            /\ \A f \in fams :
                  \E i \in FamilyOpens(file.ev) :
                      /\ Attr(file.ev[i], "base") = f[1]
                      /\ DocMembers(file.ev, i) = ModelMembers(cpt, f[2])
                      /\ \A j \in FamilyOpens(file.ev) :
                            Attr(file.ev[j], "base") = f[1] => j = i
            /\ \A f, g \in fams : \A i, j \in FamilyOpens(file.ev) :
                  (Attr(file.ev[i], "base") = f[1] /\ Attr(file.ev[j], "base") = g[1]) =>
                      /\ DictGet(MetaOf(cpt, f[2]), kConcept) # DictGet(MetaOf(cpt, g[2]), kConcept)
                            => Attr(file.ev[i], "concept") # Attr(file.ev[j], "concept")
                      /\ DictGet(MetaOf(cpt, f[2]), kGroup) # DictGet(MetaOf(cpt, g[2]), kGroup)
                            => Attr(file.ev[i], "group") # Attr(file.ev[j], "group")

(***************************************************************************)
(* C5                                                                      *)
(***************************************************************************)

AsksFamilyOfAcceptedCode == op = "family" /\ VarMatch(arg.s).ok

\* C5 as claimed: for every code the classifier accepts, family(code)
\* returns a Family whose meta.base is the group_line of the code.
C5_FamilyOfEveryAcceptedCode ==
    AsksFamilyOfAcceptedCode =>
        /\ ret.t = "ref"
        /\ DictGet(MetaOf(cpt, ret), kBase) = VStr(CodeBase(arg.s))

\* C5 as amended: for every code the classifier accepts, family(code)
\* returns the Family whose meta.base is the group_line of the code when
\* some classifiable variable of the catalog has that group_line, and None
\* otherwise.
C5_FamilyOfCatalogBase ==
    AsksFamilyOfAcceptedCode =>
        IF IndicesOfBase(CodeBase(arg.s)) # {}
        THEN /\ ret.t = "ref"
             /\ DictGet(MetaOf(cpt, ret), kBase) = VStr(CodeBase(arg.s))
        ELSE ret.t = "none"

\* family(code) has returned a Family for a code that is not itself in the
\* catalog, while the catalog holds a Family of another base as well
C5_Witness ==
    /\ AsksFamilyOfAcceptedCode
    /\ ret.t = "ref"
    /\ \A i \in 1..Len(catalog) : catalog[i].code # arg.s
    /\ Len(cpt.families) = 2

(***************************************************************************)
(* C6                                                                      *)
(***************************************************************************)

\* C6: the object built from a catalog is the object built from the
\* catalog without the variables whose code _VAR_RE does not match: such a
\* variable adds no Family, member, node, by_group or by_attribute entry.
C6_UnclassifiableContributesNothing ==
    [][phase = "unbuilt" => cpt' = Build(SelectSeq(catalog, Classifiable))]_vars

\* an object has been built from a catalog that holds an unclassifiable
\* variable with attribute codes, next to a classifiable one
C6_Witness ==
    /\ phase = "built"
    /\ cpt.families # <<>>
    /\ \E i \in 1..Len(catalog) :
          ~Classifiable(catalog[i]) /\ AttributeCodes(catalog[i].attributes) # <<>>

(***************************************************************************)
(* C7                                                                      *)
(***************************************************************************)

\* the path the claim gives for a Family whose first variable is info
ClaimedPath(info, base) ==
    LET path == DropMeasureWord(LabelTokens(IF info.label.t = "str"
                                            THEN info.label.s ELSE <<>>))
    IN  IF path # <<>> THEN path
        ELSE IF Truthy(info.concept) THEN << info.concept.s >>
        ELSE IF Truthy(info.group) THEN << info.group.s >>
        ELSE << base >>

\* C7: every Family is returned by families_at at the path obtained from
\* its representative label (or, for an empty path, from concept, group,
\* base); DP02_0126E with label "Estimate!!ANCESTRY!!Total population!!Arab"
\* gives family DP02_0126 at ["ANCESTRY", "Total population", "Arab"].
C7_FamilyReachableAtLabelPath ==
    phase = "built" =>
        \A e \in Entries(cpt.families) :
            \A r \in {FamiliesAtOf(cpt,
                          ListArg(ClaimedPath(catalog[Min(IndicesOfBase(e[1]))], e[1])))} :
                /\ r.t = "ref"
                /\ << e[1], e[2] >> \in Entries(cpt.heap[r.r])

(***************************************************************************)
(* C8                                                                      *)
(***************************************************************************)

\* the nesting depth of each event of a document
DepthOf(ev) ==
    [k \in 1..Len(ev) |->
        Cardinality({j \in 1..(k - 1) : ev[j].ev = "open"})
        - Cardinality({j \in 1..(k - 1) : ev[j].ev = "close"})]

\* the start events of the children of one element, given the depths
SameParent(ev, D, a, b) ==
    /\ ev[a].ev = "open" /\ ev[b].ev = "open"
    /\ a < b
    /\ D[a] = D[b]
    /\ \A j \in a..b : D[j] >= D[a]

InOrder(ea, eb) ==
    /\ ea.tag = "Family" => eb.tag # "Node"
    /\ (ea.tag = "Node" /\ eb.tag = "Node") => StrLess(Attr(ea, "name"), Attr(eb, "name"))
    /\ (ea.tag = "Family" /\ eb.tag = "Family") => StrLess(Attr(ea, "base"), Attr(eb, "base"))
    /\ (ea.tag = "Member" /\ eb.tag = "Member")
          => StrLess(Attr(ea, "measure"), Attr(eb, "measure"))

\* C8: in a written document the children of every element are its Node
\* elements in ascending order of name, then its Family elements in
\* ascending order of base, and the Member elements of a Family are in
\* ascending order of measure name, whatever the catalog order was.
C8_DocumentOrder ==
    status = "ok" =>
        \A D \in {DepthOf(file.ev)} :
            \A a, b \in 1..Len(file.ev) :
                SameParent(file.ev, D, a, b) => InOrder(file.ev[a], file.ev[b])

(***************************************************************************)
(* C9                                                                      *)
(***************************************************************************)

\* C9: a dump_xml call, completed or failed, leaves in the destination its
\* previous content or the complete new document, and a failed call leaves
\* the object unchanged.
C9_AtomicWrite ==
    [][ /\ \/ file' = file
           \/ \E il, ia, pretty \in BOOLEAN :
                 /\ Serializable(Serialize(cpt, il, ia))
                 /\ file' = [pretty |-> pretty, ev |-> XmlBytes(cpt, il, ia, pretty)]
        /\ status' = "failed" => cpt' = cpt ]_vars

(***************************************************************************)
(* C10                                                                     *)
(***************************************************************************)

\* the meta of every Family is that of the first classifiable variable of
\* its base in catalog order; the members have pairwise distinct measure
\* names, one for each measure of the variables of the base, and each member
\* is that of the last variable of its measure
FamiliesFollowCatalog ==
    phase = "built" =>
        \A e \in Entries(cpt.families) :
            \A idx \in {IndicesOfBase(e[1])} :
            \A meta \in {MetaOf(cpt, e[2])} :
            \A members \in {MembersOf(cpt, e[2])} :
                /\ idx # {}
                /\ DictGet(meta, kBase) = VStr(e[1])
                /\ DictGet(meta, kGroup) = catalog[Min(idx)].group
                /\ DictGet(meta, kConcept) = catalog[Min(idx)].concept
                /\ DictGet(meta, kLabel) = catalog[Min(idx)].label
                /\ \A j, k \in 1..Len(members) : members[j].k = members[k].k => j = k
                /\ {members[j].k : j \in 1..Len(members)}
                      = {CodeMeasure(catalog[i].code) : i \in idx}
                /\ \A j \in 1..Len(members) :
                      \A last \in {Max({i \in idx :
                                          CodeMeasure(catalog[i].code) = members[j].k})} :
                      \A member \in {cpt.heap[members[j].v.r]} :
                          /\ DictGet(member, kVar) = VStr(catalog[last].code)
                          /\ DictGet(member, kLabel) = catalog[last].label
                          /\ DictGet(member, kPredicateType) = catalog[last].predicateType
                          /\ DictGet(member, kAttributes) = catalog[last].attributes

\* C10: construction leaves every Family with the meta (base, group,
\* concept, representative label) of the first classifiable variable of its
\* base in catalog order, and with one member per measure name, that of the
\* last variable of the measure.
C10_MetaFromFirstVariable ==
    [][phase = "unbuilt" => FamiliesFollowCatalog']_vars

\* an object has been built from a catalog with two variables of one base
\* and one measure that differ in label and group
C10_Witness ==
    /\ phase = "built"
    /\ \E i, j \in 1..Len(catalog) :
          /\ i < j
          /\ Classifiable(catalog[i]) /\ Classifiable(catalog[j])
          /\ CodeBase(catalog[i].code) = CodeBase(catalog[j].code)
          /\ CodeMeasure(catalog[i].code) = CodeMeasure(catalog[j].code)
          /\ catalog[i].label # catalog[j].label
          /\ catalog[i].group # catalog[j].group
====
